---- MODULE Spec2Model ----
(***************************************************************************)
(* A model of datalink-sqlite: the write path of Database::store (the      *)
(* Upserter receiver and its link bookkeeping), the read path of           *)
(* StoredData (query_primitives / query_links) and the schema migrator     *)
(* (Migrations::run_one / run_all, Migration<1>, Migration<2>).            *)
(***************************************************************************)
EXTENDS Integers, Sequences, FiniteSets, TLC

VARIABLES
    values,         \* table `values`: uuid -> row (one cell per primitive column)
    links,          \* table `links`: rows in insertion (rowid) order
    user_version,   \* pragma user_version of the connection
    schema,         \* the layout of the tables: 0 none, 1 textual `id`, 2 `uuid`
    debug_assertions, \* the build checks debug_assert!
    poisoned,       \* the RwLock around the connection is poisoned
    hist,           \* the calls made so far, each with its input and its result
    old_values,     \* version-1 table `values`: rows keyed by the textual `id`
    old_links,      \* version-1 table `links`: rows with textual ids
    migs,           \* the Migrations values: migrator -> its field `version`
    ret,            \* migrator -> what its last run_one returned, and the parity of its calls
    pc,             \* migrator or thread -> where the caller that owns it stands
    lock,           \* thread -> the guard of the RwLock it holds: "none", "read", "write"
    local,          \* thread -> its locals: the open transaction, what it has read
    committed,      \* the contents of the tables after each commit
    query,          \* the filter tree a caller has built, and how far it has come
    sql,            \* what build_sql returned for it: Ok or Err, and the SQLBuilder
    codec,          \* an identifier column: the id written, the cell, what was decoded
    handles         \* the StoredData handles the callers hold

vars == <<values, links, user_version, schema, debug_assertions, poisoned, hist,
          old_values, old_links, migs, ret, pc, lock, local, committed,
          query, sql, codec, handles>>

(* The variables of the filter-to-query compiler *)
queryvars == <<query, sql>>

(* The variables outside the store, the migrator and the threads *)
restvars == <<queryvars, codec, handles>>

(* The variables of the threads that share the connection *)
threadvars == <<lock, local, committed>>

-----------------------------------------------------------------------------
(* Bounds of the model *)

MaxStores == 2      \* store calls in one behaviour
MaxRandom == 9      \* identifiers SqlID::new_random can hand out
MaxFaults == 1      \* store calls in one behaviour in which a write fails
MaxOldLinks == 2    \* link rows of a version-1 store

(* Program constants *)

SchemaVersion == 1  \* schema_version!()

-----------------------------------------------------------------------------
(* Identifiers.  An ID is a nonzero 128-bit number; 0 stands for "no id"    *)
(* (an empty OnceCell, an anonymous entity, the NULL key of a link row).    *)

NoID == 0
UserIDs == {1, 2}
RandomIDs == 11..(10 + MaxRandom)

(* SQL NULL, and Rust's None for an extraction that delivered nothing *)
NULL == [t |-> "null"]

-----------------------------------------------------------------------------
(* Integers of up to 64 bits: sign and magnitude, the magnitude as four     *)
(* 16-bit limbs, most significant first.                                    *)

Num(neg, a, b, c, d) == [t |-> "int", neg |-> neg, mag |-> <<a, b, c, d>>]
Small(n) == Num(FALSE, 0, 0, 0, n)

MagLE(x, y) ==
    \E i \in 1..5 :
        /\ \A j \in 1..(i - 1) : x[j] = y[j]
        /\ i = 5 \/ x[i] < y[i]

NumLE(x, y) ==
    CASE x.neg /\ ~y.neg -> TRUE
      [] ~x.neg /\ y.neg -> FALSE
      [] ~x.neg /\ ~y.neg -> MagLE(x.mag, y.mag)
      [] OTHER -> MagLE(y.mag, x.mag)

I64Min == Num(TRUE, 32768, 0, 0, 0)
I64Max == Num(FALSE, 32767, 65535, 65535, 65535)
U64Max == Num(FALSE, 65535, 65535, 65535, 65535)

Kinds == {"bool", "u8", "i8", "u16", "i16", "u32", "i32", "u64", "i64", "f32", "f64", "str",
          "bytes"}
IntKinds == {"u8", "i8", "u16", "i16", "u32", "i32", "u64", "i64"}

KindMin(k) ==
    CASE k = "i8" -> Num(TRUE, 0, 0, 0, 128)
      [] k = "i16" -> Num(TRUE, 0, 0, 0, 32768)
      [] k = "i32" -> Num(TRUE, 0, 0, 32768, 0)
      [] k = "i64" -> I64Min
      [] OTHER -> Small(0)

KindMax(k) ==
    CASE k = "u8" -> Small(255)
      [] k = "i8" -> Small(127)
      [] k = "u16" -> Small(65535)
      [] k = "i16" -> Small(32767)
      [] k = "u32" -> Num(FALSE, 0, 0, 65535, 65535)
      [] k = "i32" -> Num(FALSE, 0, 0, 32767, 65535)
      [] k = "u64" -> U64Max
      [] OTHER -> I64Max

-----------------------------------------------------------------------------
(* Rust scalars and SQLite values.                                          *)
(*   Rust:   Bool(b), Num(..) for the integer kinds, Float(f), Str(s)       *)
(*   SQLite: Num(..) (INTEGER), Real(f), Text(s), NULL                      *)
(* Floats are named by their decimal text; "NaN" is the not-a-number.       *)

Bool(b) == [t |-> "bool", b |-> b]
Float(f) == [t |-> "float", f |-> f]
Str(s) == [t |-> "str", s |-> s]
Real(f) == [t |-> "real", f |-> f]
Text(s) == [t |-> "text", s |-> s]
ToSqlErr == [t |-> "error"]

(* The value bound for a scalar of kind k: bool as 0/1, the integer kinds   *)
(* as i64 (u64 by i64::try_from, which fails above i64::MAX), f32 widened   *)
(* to f64, text as text.  SQLite binds a NaN double as NULL.                *)
ToSql(k, v) ==
    CASE k = "bool" -> IF v.b THEN Small(1) ELSE Small(0)
      [] k = "u64" -> IF NumLE(v, I64Max) THEN v ELSE ToSqlErr
      [] k \in IntKinds \ {"u64"} -> v
      [] k \in {"f32", "f64"} -> IF v.f = "NaN" THEN NULL ELSE Real(v.f)
      [] OTHER -> Text(v.s)

(* T::column_result for the requested kind k on a cell; NULL when the       *)
(* conversion fails and nothing is provided.                                *)
FromSql(k, cell) ==
    CASE k = "bool" ->
            IF cell.t = "int" THEN Bool(cell.mag # <<0, 0, 0, 0>>) ELSE NULL
      [] k \in IntKinds ->
            IF cell.t = "int" /\ NumLE(KindMin(k), cell) /\ NumLE(cell, KindMax(k))
            THEN cell ELSE NULL
      [] k \in {"f32", "f64"} ->
            CASE cell.t = "real" -> Float(cell.f)
              [] cell.t = "int" -> [t |-> "float", of |-> cell]
              [] OTHER -> NULL
      [] k = "bytes" ->
            IF cell.t = "blob" THEN [t |-> "bytes", bytes |-> cell.bytes] ELSE NULL
      [] OTHER ->
            IF cell.t = "text" THEN Str(cell.s) ELSE NULL

-----------------------------------------------------------------------------
(* Entities handed to store: an optional own identifier (Unique), an        *)
(* optional scalar of one kind, and a list of links (key?, target) whose    *)
(* ends are entities again.                                                 *)

NoScalar == [k |-> "none"]
Scalar(k, v) == [k |-> k, v |-> v]
Ent(id, val, ls) == [id |-> id, val |-> val, links |-> ls]
Unkeyed(target) == [keyed |-> FALSE, target |-> target]
Keyed(key, target) == [keyed |-> TRUE, key |-> key, target |-> target]

ScalarInputs ==
    { Scalar("bool", Bool(TRUE)), Scalar("bool", Bool(FALSE)),
      Scalar("u8", Small(255)), Scalar("i8", KindMin("i8")),
      Scalar("u16", Small(65535)), Scalar("i16", KindMin("i16")),
      Scalar("u32", KindMax("u32")), Scalar("i32", KindMin("i32")),
      Scalar("u64", U64Max), Scalar("u64", I64Max), Scalar("i64", I64Min),
      Scalar("f32", Float("1.5")), Scalar("f64", Float("0.1")),
      Scalar("f64", Float("NaN")), Scalar("str", Str("a")) }

(* Entities that occur as key or target of a link *)
SubI32 == Ent(NoID, Scalar("i32", Small(7)), <<>>)
SubStr == Ent(NoID, Scalar("str", Str("k")), <<>>)
SubNothing == Ent(NoID, NoScalar, <<>>)
SubUnique == Ent(2, Scalar("bool", Bool(TRUE)), <<>>)
SubLinkOnly == Ent(NoID, NoScalar, <<Unkeyed(SubI32)>>)

LinkLists ==
    { <<Unkeyed(SubI32)>>,
      <<Keyed(SubStr, SubI32)>>,
      <<Unkeyed(SubUnique)>>,
      <<Keyed(SubUnique, SubI32)>>,
      <<Unkeyed(SubNothing)>>,
      <<Keyed(SubStr, SubNothing)>>,
      <<Unkeyed(SubLinkOnly)>>,
      <<Unkeyed(SubI32), Unkeyed(SubI32)>> }

Entities ==
    {Ent(1, s, <<>>) : s \in ScalarInputs \cup {NoScalar}}
    \cup {Ent(2, s, <<>>) : s \in {Scalar("bool", Bool(TRUE)), Scalar("str", Str("a"))}}
    \cup {Ent(1, s, l) : s \in {NoScalar, Scalar("bool", Bool(TRUE))}, l \in LinkLists}

-----------------------------------------------------------------------------
(* The transaction of one store call.                                       *)
(*   values, links : the tables as the transaction sees them                *)
(*   used          : identifiers new_random has handed out in this call     *)
(*   n             : SQL writes executed so far                             *)
(*   fault         : the write that fails (0: none does)                    *)
(*   tables        : the tables have the `uuid` columns the statements name *)
(*   status        : "run", or "panic" once an unwrap or assert has fired   *)

Begin(vals, lnks, fault, tables) ==
    [values |-> vals, links |-> lnks, used |-> {}, n |-> 0, fault |-> fault,
     tables |-> tables, status |-> "run"]

Panic(tx) == [tx EXCEPT !.status = "panic"]

(* Identifiers that occur in the tables *)
IdsOf(vals, lnks) ==
    DOMAIN vals \cup UNION {{lnks[i].source, lnks[i].key, lnks[i].target} : i \in DOMAIN lnks}

(* The identifiers new_random has not handed out: 128-bit identifiers are   *)
(* drawn uniformly, so a drawn identifier is one that occurs nowhere yet.   *)
Unused(tx) == RandomIDs \ (IdsOf(tx.values, tx.links) \cup tx.used)

new_random(tx) ==
    IF Unused(tx) = {} THEN NoID
    ELSE CHOOSE r \in Unused(tx) : \A q \in Unused(tx) : r <= q

(* OnceCell::get_or_init on an empty cell: the drawn identifier r is kept *)
get_or_init(r, tx) == [id |-> r, tx |-> [tx EXCEPT !.used = @ \cup {r}]]

(* AsID for OnceCell<SqlID>: get_or_init(SqlID::new_random) *)
as_id(cell, tx) ==
    IF cell # NoID THEN [id |-> cell, tx |-> tx]
    ELSE get_or_init(new_random(tx), tx)

(* The next SQL write of the transaction fails *)
Fails(tx) == tx.n + 1 = tx.fault

Executed(tx) == [tx EXCEPT !.n = @ + 1]

EmptyRow == [k \in Kinds |-> NULL]

(* INSERT INTO `values` (uuid, col) VALUES (?, ?)                           *)
(*   ON CONFLICT(uuid) DO UPDATE SET col = excluded.col                     *)
Upsert(vals, id, k, cell) ==
    IF id \in DOMAIN vals
    THEN [vals EXCEPT ![id] = [@ EXCEPT ![k] = cell]]
    ELSE vals @@ (id :> [EmptyRow EXCEPT ![k] = cell])

(* stmt.execute(params![self.id.as_id(), value]).unwrap() with the          *)
(* identifier a.id and the bound value                                      *)
execute_upsert(a, k, bound) ==
    IF bound = ToSqlErr \/ Fails(a.tx)
    THEN [cell |-> a.id, tx |-> Panic(Executed(a.tx))]
    ELSE [cell |-> a.id,
          tx |-> [Executed(a.tx) EXCEPT !.values = Upsert(@, a.id, k, bound)]]

(* A receiver method generated by insert_impl!: the statement is prepared   *)
(* and executed, and both results are unwrapped.                            *)
insert_impl(cell, k, v, tx) ==
    IF ~tx.tables THEN [cell |-> cell, tx |-> Panic(tx)]
    ELSE execute_upsert(as_id(cell, tx), k, ToSql(k, v))

(* assert_eq!(self.id.as_id(), id) *)
assert_eq(a, id) == [cell |-> a.id, tx |-> IF a.id = id THEN a.tx ELSE Panic(a.tx)]

(* Receiver::other_ref with an ID *)
other_ref(cell, id, tx) == assert_eq(as_id(cell, tx), id)

LinkRow(source, key, target) == [source |-> source, key |-> key, target |-> target]

(* stmt.execute([self.id.as_id(), target_id, key_id])? of finish_link, with *)
(* the identifier a.id                                                      *)
execute_link(a, key_id, target_id) ==
    IF Fails(a.tx)
    THEN [cell |-> a.id, tx |-> Executed(a.tx), err |-> TRUE]
    ELSE [cell |-> a.id,
          tx |-> [Executed(a.tx) EXCEPT
                    !.links = Append(@, LinkRow(a.id, key_id, target_id))],
          err |-> FALSE]

(* Upserter::finish_link: takes both cells; without a target there is       *)
(* nothing to insert; err reports a statement that could not be prepared   *)
(* or executed.                                                             *)
finish_link(cell, next_key_id, next_target_id, tx) ==
    CASE next_target_id = NoID -> [cell |-> cell, tx |-> tx, err |-> FALSE]
      [] next_target_id # NoID /\ ~tx.tables -> [cell |-> cell, tx |-> tx, err |-> TRUE]
      [] OTHER -> execute_link(as_id(cell, tx), next_key_id, next_target_id)

(* data.query(&mut upserter) for the entity e on an Upserter whose id cell  *)
(* holds `cell`: the entity provides its identifier (other_ref), its scalar *)
(* (a receiver method), then its links one by one; link_query flushes the   *)
(* pending link (unwrapped), and the key and the target are queried on the  *)
(* upserters of new_key and new_target, which own the cells next_key_id and *)
(* next_target_id.  Dropping the upserter flushes the last link and         *)
(* discards the result.  Returns the id cell and the transaction.           *)
RECURSIVE Query(_, _, _)
RECURSIVE QueryLinks(_, _, _, _, _, _)
RECURSIVE link_query(_, _, _)
RECURSIVE new_key(_, _, _, _)
RECURSIVE new_target(_, _, _, _, _)

(* The links ls[i..] of an entity, provided one by one *)
QueryLinks(ls, i, cell, next_key_id, next_target_id, tx) ==
    IF i > Len(ls) \/ tx.status # "run"
    THEN [cell |-> cell, key |-> next_key_id, target |-> next_target_id, tx |-> tx]
    ELSE link_query(ls, i, finish_link(cell, next_key_id, next_target_id, tx))

(* Upserter::link_query: self.finish_link().unwrap() on the result f, then  *)
(* the key of the link is queried on the upserter of new_key                *)
link_query(ls, i, f) ==
    IF f.err
    THEN [cell |-> f.cell, key |-> NoID, target |-> NoID, tx |-> Panic(f.tx)]
    ELSE new_key(ls, i, f.cell,
                 IF ls[i].keyed THEN Query(ls[i].key, NoID, f.tx)
                 ELSE [cell |-> NoID, tx |-> f.tx])

(* k is the key's upserter when it is dropped; its id cell is next_key_id.  *)
(* The target is queried on the upserter of new_target.                     *)
new_key(ls, i, cell, k) ==
    new_target(ls, i, cell, k.cell, Query(ls[i].target, NoID, k.tx))

(* t is the target's upserter when it is dropped; its id cell is            *)
(* next_target_id                                                           *)
new_target(ls, i, cell, next_key_id, t) ==
    QueryLinks(ls, i + 1, cell, next_key_id, t.cell, t.tx)

(* `let _ = self.finish_link();` the error of the last link is discarded *)
Discard(f) == [cell |-> f.cell, tx |-> f.tx]

(* Drop for Upserter, s being the upserter once its links are provided *)
Drop(s) ==
    IF s.tx.status = "run" THEN Discard(finish_link(s.cell, s.key, s.target, s.tx))
    ELSE Discard(s)

(* The entity's links are provided, and the upserter is dropped *)
ProvideLinks(e, s) == Drop(QueryLinks(e.links, 1, s.cell, NoID, NoID, s.tx))

(* The entity's scalar is handed to the receiver method of its kind *)
ProvideScalar(e, s) ==
    ProvideLinks(e, IF e.val # NoScalar /\ s.tx.status = "run"
                    THEN insert_impl(s.cell, e.val.k, e.val.v, s.tx)
                    ELSE s)

Query(e, cell, tx) ==
    ProvideScalar(e, IF e.id # NoID THEN other_ref(cell, e.id, tx)
                     ELSE [cell |-> cell, tx |-> tx])

(* The writes store(e) makes when none fails, counted *)
Writes(e, vals, lnks) == Query(e, e.id, Begin(vals, lnks, 0, TRUE)).tx.n

-----------------------------------------------------------------------------
(* Database *)

is_ready == user_version = SchemaVersion

Call(e, fault, res) == [op |-> "store", e |-> e, fault |-> fault, res |-> res]

(* tx.commit() of store, or the unwinding of a panic, with the transaction  *)
(* tx as the query left it                                                  *)
commit(e, fault, tx) ==
    /\ tx.used \subseteq RandomIDs
    /\ IF tx.status = "run"
       THEN /\ values' = tx.values
            /\ links' = tx.links
            /\ poisoned' = FALSE
            /\ hist' = Append(hist, Call(e, fault, "ok"))
       ELSE /\ UNCHANGED <<values, links>>
            /\ poisoned' = TRUE
            /\ hist' = Append(hist, Call(e, fault, "panic"))

(* Database::store with the entity e, the fault-th SQL write of the         *)
(* transaction failing (0: none).  debug_assert!(self.is_ready()) panics    *)
(* before the lock is taken; a panic while the write guard is held poisons  *)
(* the lock and drops the transaction, which rolls it back.                 *)
store(e, fault) ==
    /\ Len(hist) < MaxStores
    /\ IF poisoned \/ (debug_assertions /\ ~is_ready)
       THEN /\ hist' = Append(hist, Call(e, fault, "panic"))
            /\ UNCHANGED <<values, links, poisoned>>
       ELSE commit(e, fault, Query(e, e.id, Begin(values, links, fault, schema = 2)).tx)
    /\ UNCHANGED <<user_version, schema, debug_assertions, old_values, old_links, migs, ret, pc>>
    /\ UNCHANGED threadvars
    /\ UNCHANGED restvars

(* Database::get: a handle is the pair (db, id); nothing is read *)
get(id) == id

(* StoredData::query for a consumer that requests the one kind k:           *)
(* SELECT `k` FROM `values` WHERE `uuid` = ?, then column_result.           *)
query_primitives(id, k) ==
    IF id \in DOMAIN values THEN FromSql(k, values[id][k]) ELSE NULL

(* StoredData::query_links:                                                 *)
(* SELECT `key_uuid`, `target_uuid` FROM `links` WHERE `source_uuid` = ?    *)
RECURSIVE SelectLinks(_, _)
SelectLinks(lnks, id) ==
    IF lnks = <<>> THEN <<>>
    ELSE LET rest == SelectLinks(Tail(lnks), id)
         IN IF Head(lnks).source = id
            THEN <<[key |-> Head(lnks).key, target |-> Head(lnks).target]>> \o rest
            ELSE rest

query_links(id) == SelectLinks(links, id)

-----------------------------------------------------------------------------
(* An initialised store (the tables as Database::init leaves them) in a     *)
(* process where every SQL write succeeds                                   *)

Init ==
    /\ values = <<>>
    /\ links = <<>>
    /\ user_version = SchemaVersion
    /\ schema = 2
    /\ debug_assertions \in BOOLEAN
    /\ poisoned = FALSE
    /\ hist = <<>>
    /\ old_values = <<>>
    /\ old_links = <<>>
    /\ migs = <<>>
    /\ ret = <<>>
    /\ pc = <<>>
    /\ lock = <<>>
    /\ local = <<>>
    /\ committed = {}
    /\ query = <<>>
    /\ sql = <<>>
    /\ codec = <<>>
    /\ handles = {}

Store == \E e \in Entities : store(e, 0)

Next == Store

Spec == Init /\ [][Next]_vars

(* The same store in a process where one SQL write of a transaction may     *)
(* fail (an I/O error, a full disk, a busy database)                        *)
Faults == Cardinality({i \in DOMAIN hist : hist[i].fault # 0})

StoreFault ==
    /\ ~poisoned
    /\ Faults < MaxFaults
    /\ \E e \in Entities : \E fault \in 1..Writes(e, values, links) : store(e, fault)

NextFault == Store \/ StoreFault

SpecFault == Init /\ [][NextFault]_vars

-----------------------------------------------------------------------------
(* What the claims speak of *)

Last == hist[Len(hist)]

(* The call just made ran on a lock that no earlier call had poisoned *)
LastRanClean == hist # <<>> /\ \A j \in 1..(Len(hist) - 1) : hist[j].res = "ok"

(* Every call so far stored the same entity, and each returned Ok *)
SameEntityStored ==
    /\ hist # <<>>
    /\ \A j \in DOMAIN hist : hist[j].e = hist[1].e /\ hist[j].res = "ok"

(* C1: after store(e) of an entity with the scalar v of kind k, get(e.id)   *)
(* delivers exactly v for kind k and nothing for every other kind.          *)
C1_RoundTrip ==
    (LastRanClean /\ Last.e.val # NoScalar /\ Last.e.links = <<>>) =>
        /\ Last.res = "ok"
        /\ query_primitives(get(Last.e.id), Last.e.val.k) = Last.e.val.v
        /\ \A k \in Kinds \ {Last.e.val.k} : query_primitives(get(Last.e.id), k) = NULL

(* C2: a store call in which a value upsert or a link insert failed leaves  *)
(* both tables as they were before the call, and does not return Ok.        *)
C2_AllOrNothing ==
    [][(hist' # hist /\ hist'[Len(hist')].fault # 0) =>
            /\ values' = values
            /\ links' = links
            /\ hist'[Len(hist')].res # "ok"]_vars

(* C3: every identifier that is source, key or target of a link row has a   *)
(* row in the value table.                                                  *)
C3_NoDanglingLink ==
    \A i \in DOMAIN links :
        /\ links[i].source \in DOMAIN values
        /\ links[i].target \in DOMAIN values
        /\ links[i].key # NoID => links[i].key \in DOMAIN values

(* C4: every value row has at most one primitive column that is not NULL.   *)
C4_OneColumnPerRow ==
    \A id \in DOMAIN values : Cardinality({k \in Kinds : values[id][k] # NULL}) <= 1

(* C5: after the same scalar entity was stored n >= 1 times, its identifier *)
(* has a value row, the row's column of the scalar's kind holds the scalar, *)
(* and extraction returns the scalar.                                       *)
C5_ScalarIdempotent ==
    (SameEntityStored /\ Last.e.val # NoScalar /\ Last.e.links = <<>>) =>
        /\ Last.e.id \in DOMAIN values
        /\ query_primitives(get(Last.e.id), Last.e.val.k) = Last.e.val.v

(* C6: after an entity that reports one link was stored n times, its        *)
(* identifier is the source of n link rows.                                 *)
C6_LinksAppend ==
    (SameEntityStored /\ Len(Last.e.links) = 1) =>
        Len(query_links(get(Last.e.id))) = Len(hist)

(* C7: after store(e) of an entity with one link whose target (and key)     *)
(* have identifiers of their own, link extraction from get(e.id) ends with  *)
(* the row (key's id or none, target's id).                                 *)
C7_EndpointsKeepIdentity ==
    (LastRanClean /\ Len(Last.e.links) = 1 /\ Last.e.links[1].target.id # NoID) =>
        LET got == query_links(get(Last.e.id))
            lnk == Last.e.links[1]
        IN /\ got # <<>>
           /\ got[Len(got)].target = lnk.target.id
           /\ got[Len(got)].key = IF lnk.keyed THEN lnk.key.id ELSE NoID

-----------------------------------------------------------------------------
(* Schema migrator *)

Migrators == {"m1", "m2"}

(* Textual identifiers of a version-1 store; NullText is the SQL NULL of    *)
(* the column key_id.  "zz" is text that is no identifier.                  *)
TextIDs == {"1", "2", "3", "zz"}
NullText == "NULL"

(* id_str.parse::<ID>(); NoID when the text is no identifier *)
ParseID(str) ==
    CASE str = "1" -> 1
      [] str = "2" -> 2
      [] str = "3" -> 3
      [] OTHER -> NoID

(* The database as the migration steps see it *)
Db == [values |-> values, links |-> links, user_version |-> user_version,
       schema |-> schema]

MigOk(db) == [ok |-> TRUE, db |-> db]
MigErr(db) == [ok |-> FALSE, db |-> db]

(* migrations/1.sql, its statements that create the tables with the         *)
(* textual `id` columns                                                     *)
Script1Tables(db) == [db EXCEPT !.schema = IF @ = 0 THEN 1 ELSE @]

(* migrations/1.sql, its statement that records version 1 *)
Script1Version(db) == [db EXCEPT !.user_version = 1]

(* migrations/1.sql: creates the tables and records version 1 *)
Script1(db) == Script1Version(Script1Tables(db))

(* What can go wrong in a step: nothing (0), or its first or a later       *)
(* statement fails                                                          *)
StepFaults == {0, 1, 2}

(* migrations/2a.sql: adds the `uuid` columns to both tables *)
Script2a(db) == [db EXCEPT !.schema = 2]

(* Migration<1>::run: conn.execute_batch on the connection itself, outside  *)
(* any transaction (Database::init runs the same script inside one, so the  *)
(* script opens none): each statement is committed as it ends, and the      *)
(* batch stops at the statement that fails.                                 *)
Migration1(db, fails) ==
    CASE fails = 0 -> MigOk(Script1(db))
      [] fails = 1 -> MigErr(db)
      [] OTHER -> MigErr(Script1Tables(db))

(* Migration<2>::run, the loop over the value rows:                         *)
(* UPDATE `values` SET `uuid` = ? WHERE `id` = ?                            *)
ConvertValues(ov) ==
    [u \in {ParseID(str) : str \in DOMAIN ov} |->
        ov[CHOOSE str \in DOMAIN ov : ParseID(str) = u]]

(* Migration<2>::run, the loop over the link rows: UPDATE `links` SET       *)
(* `source_uuid` = ?, `key_uuid` = ?, `target_uuid` = ? WHERE the three     *)
(* textual columns are the row's                                            *)
ConvertLink(row) ==
    LinkRow(ParseID(row.source),
            IF row.key = NullText THEN NoID ELSE ParseID(row.key),
            ParseID(row.target))

ConvertLinks(ol) == [i \in DOMAIN ol |-> ConvertLink(ol[i])]

(* Every identifier of the version-1 rows parses *)
AllParse(ov, ol) ==
    /\ \A str \in DOMAIN ov : ParseID(str) # NoID
    /\ \A i \in DOMAIN ol :
        /\ ParseID(ol[i].source) # NoID
        /\ ParseID(ol[i].target) # NoID
        /\ ol[i].key # NullText => ParseID(ol[i].key) # NoID

(* Migration<2>::run: one transaction around 2a.sql, the two loops and      *)
(* 2b.sql; any error (a failing statement, InvalidID) drops it.             *)
Migration2(db, fails) ==
    IF fails # 0 \/ ~AllParse(old_values, old_links) THEN MigErr(db)
    ELSE MigOk([Script2a(db) EXCEPT !.values = ConvertValues(old_values),
                                    !.links = ConvertLinks(old_links)])

(* Option<Result<Version>>, and a panic *)
RetNone == [r |-> "none", v |-> 0]
RetOk(v) == [r |-> "ok", v |-> v]
RetErr == [r |-> "err", v |-> 0]
RetPanic == [r |-> "panic", v |-> 0]

(* Migrations::new: db.schema_version().unwrap_or(0) *)
new(m) ==
    /\ pc[m] = "none"
    /\ ~poisoned
    /\ migs' = [migs EXCEPT ![m] = user_version]
    /\ pc' = [pc EXCEPT ![m] = "idle"]
    /\ UNCHANGED <<values, links, user_version, schema, debug_assertions, poisoned, hist,
                   old_values, old_links, ret>>
    /\ UNCHANGED threadvars
    /\ UNCHANGED restvars

(* self.version += 1; Some(Ok(self.version)) without the increment *)
run_one_no_advance(m, fails) ==
    LET version == migs[m]
        stay(r) == [ret |-> r, version |-> version, db |-> Db, fault |-> 0]
        res == IF version = 0 THEN Migration1(Db, fails) ELSE Migration2(Db, fails)
    IN IF debug_assertions
          /\ (poisoned \/ version < 0 \/ version > SchemaVersion \/ version # user_version)
       THEN stay(RetPanic)
       ELSE IF version >= SchemaVersion THEN stay(RetNone)
       ELSE IF poisoned \/ version \notin {0, 1} THEN stay(RetPanic)
       ELSE IF ~res.ok
            THEN [ret |-> RetErr, version |-> version, db |-> res.db, fault |-> fails]
       ELSE [ret |-> RetOk(version), version |-> version, db |-> res.db, fault |-> fails]

(* the early return taken one version too soon *)
run_one_early_none(m, fails) ==
    LET version == migs[m]
        stay(r) == [ret |-> r, version |-> version, db |-> Db, fault |-> 0]
        res == IF version = 0 THEN Migration1(Db, fails) ELSE Migration2(Db, fails)
    IN IF debug_assertions
          /\ (poisoned \/ version < 0 \/ version > SchemaVersion \/ version # user_version)
       THEN stay(RetPanic)
       ELSE IF version + 1 >= SchemaVersion THEN stay(RetNone)
       ELSE IF poisoned \/ version \notin {0, 1} THEN stay(RetPanic)
       ELSE IF ~res.ok
            THEN [ret |-> RetErr, version |-> version, db |-> res.db, fault |-> fails]
       ELSE [ret |-> RetOk(version + 1), version |-> version + 1, db |-> res.db,
             fault |-> fails]

(* What one call of Migrations::run_one returns and leaves behind:          *)
(* [ret, version, db, fault].  The three debug_assert!s, the early None, then the  *)
(* step for the migrator's version under the lock.                          *)
run_one(m, fails) ==
    LET version == migs[m]
        stay(r) == [ret |-> r, version |-> version, db |-> Db, fault |-> 0]
        res == IF version = 0 THEN Migration1(Db, fails) ELSE Migration2(Db, fails)
    IN IF debug_assertions
          /\ (poisoned \/ version < 0 \/ version > SchemaVersion \/ version # user_version)
       THEN stay(RetPanic)
       ELSE IF version >= SchemaVersion THEN stay(RetNone)
       ELSE IF poisoned \/ version \notin {0, 1} THEN stay(RetPanic)
       ELSE IF ~res.ok
            THEN [ret |-> RetErr, version |-> version, db |-> res.db, fault |-> fails]
       ELSE [ret |-> RetOk(version + 1), version |-> version + 1, db |-> res.db,
             fault |-> fails]

(* The state after a call of run_one by the caller that then stands at to *)
Returned(m, out, to) ==
    /\ ret' = [ret EXCEPT ![m] = [r |-> out.ret.r, v |-> out.ret.v, tick |-> 1 - @.tick,
                                  fault |-> out.fault]]
    /\ migs' = [migs EXCEPT ![m] = out.version]
    /\ values' = out.db.values
    /\ links' = out.db.links
    /\ user_version' = out.db.user_version
    /\ schema' = out.db.schema
    /\ pc' = [pc EXCEPT ![m] = to]
    /\ UNCHANGED <<debug_assertions, poisoned, hist, old_values, old_links>>
    /\ UNCHANGED threadvars
    /\ UNCHANGED restvars

(* A caller steps the migrator once (Iterator::next) *)
RunOne(m) ==
    /\ pc[m] = "idle"
    /\ \E fails \in StepFaults :
        LET out == run_one(m, fails)
        IN Returned(m, out, IF out.ret = RetPanic THEN "panicked" ELSE "idle")

(* A caller hands the migrator to run_all *)
RunAll(m) ==
    /\ pc[m] = "idle"
    /\ pc' = [pc EXCEPT ![m] = "run_all"]
    /\ UNCHANGED <<values, links, user_version, schema, debug_assertions, poisoned, hist,
                   old_values, old_links, migs, ret>>
    /\ UNCHANGED threadvars
    /\ UNCHANGED restvars

(* Migrations::run_all, one turn of `for result in self { result?; }` *)
RunAllStep(m) ==
    /\ pc[m] = "run_all"
    /\ \E fails \in StepFaults :
        LET out == run_one(m, fails)
        IN Returned(m, out,
                    CASE out.ret = RetPanic -> "panicked"
                      [] out.ret = RetNone -> "done_ok"
                      [] out.ret = RetErr -> "done_err"
                      [] OTHER -> "run_all")

(* Version-1 stores: the rows a store of the previous layout can hold *)
OldRow(str) ==
    CASE str = "2" -> [EmptyRow EXCEPT !["bool"] = Small(1)]
      [] str = "3" -> [EmptyRow EXCEPT !["str"] = Text("key")]
      [] OTHER -> EmptyRow

OldLinkRows ==
    { [source |-> "1", key |-> "3", target |-> "2"],
      [source |-> "1", key |-> NullText, target |-> "2"],
      [source |-> "2", key |-> NullText, target |-> "zz"] }

OldLinkLists == UNION {[1..n -> OldLinkRows] : n \in 0..MaxOldLinks}

InitMig ==
    /\ values = <<>>
    /\ links = <<>>
    /\ debug_assertions \in BOOLEAN
    /\ poisoned = FALSE
    /\ hist = <<>>
    /\ migs = [m \in Migrators |-> 0]
    /\ ret = [m \in Migrators |-> [r |-> "fresh", v |-> 0, tick |-> 0, fault |-> 0]]
    /\ pc = [m \in Migrators |-> "none"]
    /\ lock = <<>>
    /\ local = <<>>
    /\ committed = {}
    /\ query = <<>>
    /\ sql = <<>>
    /\ codec = <<>>
    /\ handles = {}
    /\ \/ /\ user_version = 0
          /\ schema = 0
          /\ old_values = <<>>
          /\ old_links = <<>>
       \/ /\ user_version = 1
          /\ schema = 1
          /\ \E S \in SUBSET TextIDs : old_values = [str \in S |-> OldRow(str)]
          /\ old_links \in OldLinkLists

NextMig == \E m \in Migrators : new(m) \/ RunOne(m) \/ RunAll(m) \/ RunAllStep(m)

SpecMig == InitMig /\ [][NextMig]_vars

(* run_all is a loop of one thread: it keeps taking turns *)
SpecMigFair == SpecMig /\ \A m \in Migrators : WF_vars(RunAllStep(m))

-----------------------------------------------------------------------------
(* Claims about the migrator *)

(* The migrator m has just returned from a call of run_one *)
Called(m) == ret'[m].tick # ret[m].tick

RunAllEnded(m) ==
    \/ pc[m] \in {"done_ok", "done_err"}
    \/ pc[m] = "panicked" /\ migs[m] # user_version

(* C9: a run_all that was started ends, and when it returns Ok the stored   *)
(* version is the target version.                                           *)
C9_RunAllReachesTarget ==
    /\ \A m \in Migrators : (pc[m] = "run_all") ~> RunAllEnded(m)
    /\ \A m \in Migrators : [](pc[m] = "done_ok" => user_version = SchemaVersion)

(* run_all has taken a store from version 0 to the target, one migrator     *)
(* after the other had stopped early                                        *)
C9_Witness ==
    \E m \in Migrators : \E o \in Migrators \ {m} :
        /\ pc[m] = "done_ok" /\ user_version = SchemaVersion
        /\ pc[o] = "idle" /\ ret[o].r = "err"
        /\ old_values = <<>>

(* C10: after run_all has returned Ok on a store whose textual identifiers  *)
(* all parse, every version-1 value row is found under its re-encoded       *)
(* identifier with its content, and every version-1 link row is found with  *)
(* its three ends re-encoded.                                               *)
C10_NoDataLoss ==
    \A m \in Migrators :
        (pc[m] = "done_ok" /\ AllParse(old_values, old_links)) =>
            /\ values = ConvertValues(old_values)
            /\ links = ConvertLinks(old_links)

(* C11: a call of run_one in whose step a statement or a row conversion     *)
(* fails returns Some(Err); a call that returns Some(Err) leaves the        *)
(* migrator's version, the schema, the rows and the stored version as they  *)
(* were before the call, and run_all returns that first failure.            *)
C11_FailedStepInvisible ==
    [][\A m \in Migrators : Called(m) =>
        /\ (ret'[m].fault # 0
              \/ (ret'[m].r \in {"ok", "err"} /\ migs[m] = 1
                  /\ ~AllParse(old_values, old_links))) => ret'[m].r = "err"
        /\ ret'[m].r = "err" =>
            /\ migs'[m] = migs[m]
            /\ UNCHANGED <<values, links, user_version, schema>>
            /\ pc[m] = "run_all" => pc'[m] = "done_err"]_vars

-----------------------------------------------------------------------------
(* Threads that share one Database (a clone of the Arc<RwLock<Connection>>) *)
(* Each thread runs one operation: a store, an extraction through a         *)
(* StoredData handle, or a migration.  A step of a thread is what it does   *)
(* between two moments at which another thread can run.                     *)

Threads == {"t1", "t2", "t3"}

(* The guard Database::store takes: self.conn.write() *)
store_guard_shared == "read"
store_guard == "write"

(* RwLock: a read guard is granted while no thread holds the write guard,   *)
(* a write guard while no thread holds any guard                            *)
CanAcquire(t, mode) ==
    IF mode = "write" THEN \A o \in Threads \ {t} : lock[o] = "none"
    ELSE \A o \in Threads \ {t} : lock[o] # "write"

(* The tables as one value *)
Tables == [values |-> values, links |-> links]

NoSeen == [found |-> FALSE, row |-> EmptyRow, links |-> <<>>]
NoLocal == [id |-> NoID, tx |-> Begin(<<>>, <<>>, 0, TRUE), before |-> Tables, seen |-> NoSeen]

(* What an extraction for the identifier id delivers from the tables tb *)
Snapshot(tb, id) ==
    [found |-> id \in DOMAIN tb.values,
     row |-> IF id \in DOMAIN tb.values THEN tb.values[id] ELSE EmptyRow,
     links |-> SelectLinks(tb.links, id)]

(* Entities the threads store *)
ThreadEntities ==
    { Ent(1, Scalar("bool", Bool(TRUE)), <<Unkeyed(SubI32)>>),
      Ent(1, Scalar("u8", Small(255)), <<Keyed(SubStr, SubI32)>>) }

Goes(t, to) == pc' = [pc EXCEPT ![t] = to]

(* store, up to `let tx = conn.transaction()?`: the debug_assert!, then the *)
(* write guard, whose unwrap panics when the lock is poisoned               *)
StoreBegin(t, e) ==
    /\ pc[t] = "idle"
    /\ IF debug_assertions /\ (poisoned \/ ~is_ready)
       THEN Goes(t, "panicked") /\ UNCHANGED <<lock, local>>
       ELSE /\ CanAcquire(t, store_guard)
            /\ IF poisoned
               THEN Goes(t, "panicked") /\ UNCHANGED <<lock, local>>
               ELSE /\ lock' = [lock EXCEPT ![t] = store_guard]
                    /\ local' = [local EXCEPT ![t] =
                          [@ EXCEPT !.id = e.id, !.before = Tables,
                                    !.tx = Query(e, e.id, Begin(values, links, 0, schema = 2)).tx]]
                    /\ Goes(t, "store_tx")
    /\ UNCHANGED <<values, links, user_version, schema, debug_assertions, poisoned, hist,
                   old_values, old_links, migs, ret, committed>>
    /\ UNCHANGED restvars

(* data.query(&mut upserter): the value rows reach the connection *)
StoreValues(t) ==
    /\ pc[t] = "store_tx"
    /\ values' = local[t].tx.values
    /\ Goes(t, "store_values")
    /\ UNCHANGED <<links, user_version, schema, debug_assertions, poisoned, hist,
                   old_values, old_links, migs, ret, lock, local, committed>>
    /\ UNCHANGED restvars

(* data.query(&mut upserter), drop(upserter): the link rows reach the       *)
(* connection                                                               *)
StoreLinks(t) ==
    /\ pc[t] = "store_values"
    /\ links' = local[t].tx.links
    /\ Goes(t, "store_links")
    /\ UNCHANGED <<values, user_version, schema, debug_assertions, poisoned, hist,
                   old_values, old_links, migs, ret, lock, local, committed>>
    /\ UNCHANGED restvars

(* tx.commit() and the end of store, where the guard is dropped; or the     *)
(* unwinding of a panic, which rolls the transaction back and poisons the   *)
(* lock                                                                     *)
StoreEnd(t) ==
    /\ pc[t] = "store_links"
    /\ lock' = [lock EXCEPT ![t] = "none"]
    /\ IF local[t].tx.status = "run"
       THEN /\ committed' = committed \cup {Tables}
            /\ Goes(t, "done")
            /\ UNCHANGED <<values, links, poisoned>>
       ELSE /\ values' = local[t].before.values
            /\ links' = local[t].before.links
            /\ poisoned' = TRUE
            /\ Goes(t, "panicked")
            /\ UNCHANGED committed
    /\ UNCHANGED <<user_version, schema, debug_assertions, hist, old_values, old_links,
                   migs, ret, local>>
    /\ UNCHANGED restvars

(* StoredData::query: the read guard (unwrapped), then query_primitives *)
ReadBegin(t, id) ==
    /\ pc[t] = "idle"
    /\ CanAcquire(t, "read")
    /\ IF poisoned
       THEN Goes(t, "panicked") /\ UNCHANGED <<lock, local>>
       ELSE /\ lock' = [lock EXCEPT ![t] = "read"]
            /\ local' = [local EXCEPT ![t] =
                  [@ EXCEPT !.id = id,
                            !.seen = [Snapshot(Tables, id) EXCEPT !.links = <<>>]]]
            /\ Goes(t, "read_values")
    /\ UNCHANGED <<values, links, user_version, schema, debug_assertions, poisoned, hist,
                   old_values, old_links, migs, ret, committed>>
    /\ UNCHANGED restvars

(* StoredData::query: query_links, and the guard is dropped *)
ReadLinks(t) ==
    /\ pc[t] = "read_values"
    /\ local' = [local EXCEPT ![t].seen.links = SelectLinks(links, local[t].id)]
    /\ lock' = [lock EXCEPT ![t] = "none"]
    /\ Goes(t, "read_done")
    /\ UNCHANGED <<values, links, user_version, schema, debug_assertions, poisoned, hist,
                   old_values, old_links, migs, ret, committed>>
    /\ UNCHANGED restvars

(* Migrations::new and run_one up to migrate_to!: the stored version is     *)
(* read under the read guard; at the target version run_one returns None,   *)
(* otherwise the step takes the connection for itself (&mut Connection)     *)
MigrateBegin(t) ==
    /\ pc[t] = "idle"
    /\ IF poisoned
       THEN CanAcquire(t, "read") /\ Goes(t, "panicked") /\ UNCHANGED lock
       ELSE IF user_version >= SchemaVersion
       THEN CanAcquire(t, "read") /\ Goes(t, "done") /\ UNCHANGED lock
       ELSE /\ CanAcquire(t, "write")
            /\ lock' = [lock EXCEPT ![t] = "write"]
            /\ Goes(t, "migrate_locked")
    /\ UNCHANGED <<values, links, user_version, schema, debug_assertions, poisoned, hist,
                   old_values, old_links, migs, ret, local, committed>>
    /\ UNCHANGED restvars

(* Migration<1>::run: the statements of 1.sql that create the tables *)
MigrateTables(t) ==
    /\ pc[t] = "migrate_locked"
    /\ schema' = Script1Tables(Db).schema
    /\ Goes(t, "migrate_tables")
    /\ UNCHANGED <<values, links, user_version, debug_assertions, poisoned, hist,
                   old_values, old_links, migs, ret, lock, local, committed>>
    /\ UNCHANGED restvars

(* Migration<1>::run: the statement of 1.sql that records the version; the  *)
(* guard is dropped at the end of migrate_to!                               *)
MigrateVersion(t) ==
    /\ pc[t] = "migrate_tables"
    /\ user_version' = Script1Version(Db).user_version
    /\ lock' = [lock EXCEPT ![t] = "none"]
    /\ Goes(t, "done")
    /\ UNCHANGED <<values, links, schema, debug_assertions, poisoned, hist,
                   old_values, old_links, migs, ret, local, committed>>
    /\ UNCHANGED restvars

InitThreads ==
    /\ values = <<>>
    /\ links = <<>>
    /\ \/ user_version = SchemaVersion /\ schema = 2
       \/ user_version = 0 /\ schema = 0
    /\ debug_assertions \in BOOLEAN
    /\ poisoned = FALSE
    /\ hist = <<>>
    /\ old_values = <<>>
    /\ old_links = <<>>
    /\ migs = <<>>
    /\ ret = <<>>
    /\ pc = [t \in Threads |-> "idle"]
    /\ lock = [t \in Threads |-> "none"]
    /\ local = [t \in Threads |-> [NoLocal EXCEPT !.before = [values |-> <<>>, links |-> <<>>]]]
    /\ committed = {[values |-> <<>>, links |-> <<>>]}
    /\ query = <<>>
    /\ sql = <<>>
    /\ codec = <<>>
    /\ handles = {}

NextThreads ==
    \E t \in Threads :
        \/ \E e \in ThreadEntities : StoreBegin(t, e)
        \/ StoreValues(t)
        \/ StoreLinks(t)
        \/ StoreEnd(t)
        \/ \E id \in UserIDs : ReadBegin(t, id)
        \/ ReadLinks(t)
        \/ MigrateBegin(t)
        \/ MigrateTables(t)
        \/ MigrateVersion(t)

SpecThreads == InitThreads /\ [][NextThreads]_vars

(* The thread t is inside its transaction or its migration step *)
InTransaction(t) ==
    pc[t] \in {"store_tx", "store_values", "store_links", "migrate_locked", "migrate_tables"}

(* C12: while a store or a migration step has its transaction open no other *)
(* thread holds the connection, an extraction holds the read guard from its *)
(* value read to its link read, and what an extraction has delivered is     *)
(* what the tables held after some commit: none or all of the rows of each  *)
(* store.                                                                   *)
C12_WritersExclusive ==
    \A t \in Threads :
        /\ InTransaction(t) =>
            /\ lock[t] = "write"
            /\ \A o \in Threads \ {t} : lock[o] = "none" /\ ~InTransaction(o)
        /\ pc[t] = "read_values" => lock[t] = "read"
        /\ pc[t] = "read_done" =>
            \E tb \in committed : local[t].seen = Snapshot(tb, local[t].id)

(* two extractions hold the read guard together, after a store has          *)
(* committed its rows                                                       *)
C12_Witness ==
    \E t \in Threads : \E o \in Threads \ {t} :
        /\ lock[t] = "read" /\ lock[o] = "read"
        /\ local[t].seen.found
        /\ \E u \in Threads \ {t, o} : pc[u] = "done" /\ local[u].tx.n > 0

-----------------------------------------------------------------------------
(* The filter-to-query compiler (query.rs).                                 *)
(* SQL text is a sequence of tokens.  A `?` is written as part of the token *)
(* of its comparison, which also names the parameter it was written for    *)
(* (q); the builder's parameter list is kept apart, as in the code.        *)

MaxDepth == 2       \* operators nested around the leaf of a filter tree

(* Filter trees: LinkFilter and DataFilter *)
FAny == [f |-> "Any"]
FNone == [f |-> "None"]
FUnique == [f |-> "Unique"]
FId(id) == [f |-> "Id", id |-> id]
FNotId(id) == [f |-> "NotId", id |-> id]
FNot(s) == [f |-> "Not", s |-> s]
FAnd(fs) == [f |-> "And", fs |-> fs]
FOr(fs) == [f |-> "Or", fs |-> fs]
FKey(s) == [f |-> "Key", s |-> s]
FTarget(s) == [f |-> "Target", s |-> s]
FText(search, exact) == [f |-> "Text", search |-> search, exact |-> exact]
FLinked(s) == [f |-> "Linked", s |-> s]
FReserved == [f |-> "Reserved"]

(* Tokens *)
Lit(n) == [t |-> "lit", v |-> n]
OpTok(op) == [t |-> "op", v |-> op]
LP == [t |-> "("]
RP == [t |-> ")"]
NotTok == [t |-> "NOT"]
ExistsTok == [t |-> "EXISTS"]
WhereTok == [t |-> "WHERE"]
SelectTok(items) == [t |-> "SELECT", items |-> items]
FromTok(items) == [t |-> "FROM", items |-> items]
Cmp(col, eq, q) == [t |-> "cmp", col |-> col, eq |-> eq, q |-> q]
Join(a, b) == [t |-> "join", a |-> a, b |-> b]
Like(col, q) == [t |-> "like", col |-> col, q |-> q]

(* id.to_string(): the text that displays the identifier *)
to_string(id) == [t |-> "text", id |-> id]

(* search.to_owned(): the searched string, bound as text *)
to_owned(search) == [t |-> "text", s |-> search]

(* SqlID::to_sql: the identifier as a 16-byte blob *)
to_sql(id) == [t |-> "blob", id |-> id]

(* SQLBuilder: select and from are lists of items, wher a token sequence *)
NewBuilder == [select |-> <<>>, from |-> <<>>, wher |-> <<>>, params |-> <<>>]

select(b, items) == [b EXCEPT !.select = @ \o items]

from(b, items) == [b EXCEPT !.from = @ \o items]

(* SQLBuilder::wher, O::op() being op *)
wher(b, op, toks) ==
    IF toks = <<>> THEN b
    ELSE [b EXCEPT !.wher = (IF @ = <<>> THEN @ ELSE Append(@, OpTok(op))) \o toks]

with(b, param) == [b EXCEPT !.params = Append(@, param)]

(* the other builder's parameters put in front *)
extend_params(b, params) == [b EXCEPT !.params = params \o @]

(* self.params.extend(other.params) *)
params_extend(b, params) == [b EXCEPT !.params = @ \o params]

(* self.wher("("); self.wher.push_str(&other.wher); self.wher.push(')') *)
push_wher(b, op, other_wher) ==
    IF other_wher = <<>> THEN b
    ELSE [wher(b, op, <<LP>>) EXCEPT !.wher = @ \o other_wher \o <<RP>>]

(* SQLBuilder::extend *)
extend(b, op, other) ==
    params_extend(push_wher(from(select(b, other.select), other.from), op, other.wher),
                  other.params)

(* Display for SQLBuilder *)
Render(b) ==
    <<SelectTok(IF b.select = <<>> THEN <<"1">> ELSE b.select)>>
    \o (IF b.from = <<>> THEN <<>> ELSE <<FromTok(b.from)>>)
    \o (IF b.wher = <<>> THEN <<>> ELSE <<WhereTok>> \o b.wher)

(* Result<()> of build_sql, with the builder as the call left it *)
Ok(b) == [ok |-> TRUE, sql |-> b]
Err(b) == [ok |-> FALSE, sql |-> b]

(* The merge without the `?`: the inner result is merged whatever it is *)
extend_inner_unchecked(b, op, r) == Ok(extend(b, op, r.sql))

(* `build_sql(&mut inner_sql)?; sql.extend(inner_sql);` *)
extend_inner(b, op, r) == IF r.ok THEN Ok(extend(b, op, r.sql)) ELSE Err(b)

(* DataFilter::Not: the inner WHERE clause negated, the rest merged *)
not_inner(b, op, r) ==
    IF ~r.ok THEN Err(b)
    ELSE Ok(params_extend(
                wher(from(select(b, r.sql.select), r.sql.from), op,
                     IF r.sql.wher = <<>> THEN <<>>
                     ELSE <<NotTok, LP>> \o r.sql.wher \o <<RP>>),
                r.sql.params))

(* `sql.wher(format!("EXISTS ({inner_sql})")); sql.params.extend(..)` *)
exists_inner(b, op, r) ==
    IF ~r.ok THEN Err(b)
    ELSE Ok(params_extend(wher(b, op, <<ExistsTok, LP>> \o Render(r.sql) \o <<RP>>),
                          r.sql.params))

(* The alias of a subquery: the column with '.' replaced (the columns here  *)
(* hold none) and a suffix                                                  *)
Alias(col, suffix) == col \o suffix

(* TextFilter::build_sql *)
TextBuild(f, b, col, op) ==
    IF f.exact
    THEN exists_inner(b, op,
            Ok(with(wher(wher(from(NewBuilder, <<"values as " \o Alias(col, "_v")>>),
                              "AND", <<Join(Alias(col, "_v") \o ".uuid", col)>>),
                         "AND", <<Like(Alias(col, "_v") \o ".str", to_owned(f.search))>>),
                    to_owned(f.search))))
    ELSE Err(b)

(* The builder DataFilter::Linked starts its subquery with *)
LinkedInner(col) ==
    wher(from(select(NewBuilder, <<Alias(col, "_l") \o ".key_uuid as " \o Alias(col, "_l_k"),
                                   Alias(col, "_l") \o ".target_uuid as " \o Alias(col, "_l_t")>>),
              <<"links as " \o Alias(col, "_l")>>),
         "AND", <<Join(Alias(col, "_l") \o ".source_uuid", col)>>)

LinkContext(key_col, target_col) == [key_col |-> key_col, target_col |-> target_col]

RECURSIVE DataBuild(_, _, _, _)
RECURSIVE DataBuildAll(_, _, _, _, _)
RECURSIVE DataBuildNext(_, _, _, _, _)
RECURSIVE LinkBuild(_, _, _, _)
RECURSIVE LinkBuildAll(_, _, _, _, _)
RECURSIVE LinkBuildNext(_, _, _, _, _)

(* SqlFragment for DataFilter::build_sql on the builder b, whose context is *)
(* the column col and whose operator is op                                  *)
DataBuild(f, b, col, op) ==
    CASE f.f = "Any" -> Ok(wher(b, op, <<Lit(1)>>))
      [] f.f = "None" -> Ok(wher(b, op, <<Lit(0)>>))
      [] f.f = "Id" ->
            Ok(with(wher(b, op, <<Cmp(col, TRUE, to_string(f.id))>>), to_string(f.id)))
      [] f.f = "Unique" -> Ok(wher(b, op, <<Lit(1)>>))
      [] f.f = "NotId" ->
            Ok(with(wher(b, op, <<Cmp(col, FALSE, to_string(f.id))>>), to_string(f.id)))
      [] f.f = "Not" -> not_inner(b, op, DataBuild(f.s, NewBuilder, col, "AND"))
      [] f.f = "And" -> DataBuildAll(f.fs, 1, b, col, op)
      [] f.f = "Or" -> extend_inner(b, op, DataBuildAll(f.fs, 1, NewBuilder, col, "OR"))
      [] f.f = "Text" -> TextBuild(f, b, col, op)
      [] f.f = "Linked" ->
            exists_inner(b, op,
                LinkBuild(f.s, LinkedInner(col),
                          LinkContext(Alias(col, "_l_k"), Alias(col, "_l_t")), "AND"))
      [] OTHER -> Err(b)

(* `for s in list.iter() { s.build_sql(sql)?; }` from the i-th element on *)
DataBuildAll(fs, i, b, col, op) ==
    IF i > Len(fs) THEN Ok(b)
    ELSE DataBuildNext(fs, i, DataBuild(fs[i], b, col, op), col, op)

DataBuildNext(fs, i, r, col, op) ==
    IF r.ok THEN DataBuildAll(fs, i + 1, r.sql, col, op) ELSE r

(* SqlFragment for LinkFilter::build_sql *)
LinkBuild(f, b, ctx, op) ==
    CASE f.f = "Any" -> Ok(wher(b, op, <<Lit(1)>>))
      [] f.f = "None" -> Ok(wher(b, op, <<Lit(0)>>))
      [] f.f = "Key" -> extend_inner(b, op, DataBuild(f.s, NewBuilder, ctx.key_col, "AND"))
      [] f.f = "Target" ->
            extend_inner(b, op, DataBuild(f.s, NewBuilder, ctx.target_col, "AND"))
      [] f.f = "And" -> LinkBuildAll(f.fs, 1, b, ctx, op)
      [] f.f = "Or" -> extend_inner(b, op, LinkBuildAll(f.fs, 1, NewBuilder, ctx, "OR"))
      [] OTHER -> Err(b)

LinkBuildAll(fs, i, b, ctx, op) ==
    IF i > Len(fs) THEN Ok(b)
    ELSE LinkBuildNext(fs, i, LinkBuild(fs[i], b, ctx, op), ctx, op)

LinkBuildNext(fs, i, r, ctx, op) ==
    IF r.ok THEN LinkBuildAll(fs, i + 1, r.sql, ctx, op) ELSE r

(* SqlFragment for Query::build_sql on a fresh conjunctive builder whose    *)
(* context is the table `links` with its columns key_uuid and target_uuid   *)
build_sql(f) ==
    extend_inner(from(select(NewBuilder, <<"links.key_uuid as links_k",
                                           "links.target_uuid as links_t">>),
                      <<"links">>),
                 "AND",
                 LinkBuild(f, NewBuilder, LinkContext("key_uuid", "target_uuid"), "AND"))

(* Callers of the compiler: a filter tree is built from a leaf outwards,    *)
(* one operator at a time, and then compiled.  The tables hold what store   *)
(* wrote for an entity with an unkeyed and a keyed link.                    *)

QueryEntity == Ent(1, NoScalar, <<Unkeyed(SubI32), Keyed(SubStr, SubI32)>>)

(* Identifiers the Id and NotId filters name: the first target, the key *)
QueryIDs == {11, 12}

DataLeaves ==
    {FAny, FNone, FUnique, FReserved, FAnd(<<>>), FOr(<<>>),
     FText("foo", TRUE), FText("foo", FALSE)}
    \cup {FId(a) : a \in QueryIDs} \cup {FNotId(a) : a \in QueryIDs}

LinkLeaves == {FAny, FNone, FReserved, FAnd(<<>>), FOr(<<>>)}

DataSiblings == {FNone, FId(12)}
LinkSiblings == {FNone, FKey(FId(12))}

(* One more operator around the tree q; sibs are the trees it may stand     *)
(* next to in a list                                                        *)
Lists(q, sibs) == {<<q>>} \cup {<<q, s>> : s \in sibs} \cup {<<s, q>> : s \in sibs}

DataWraps(q) ==
    {FNot(q)} \cup {FAnd(l) : l \in Lists(q, DataSiblings)}
              \cup {FOr(l) : l \in Lists(q, DataSiblings)}

LinkWraps(q) ==
    {FAnd(l) : l \in Lists(q, LinkSiblings)} \cup {FOr(l) : l \in Lists(q, LinkSiblings)}

Tree(f, level, depth) == [f |-> f, level |-> level, depth |-> depth, built |-> FALSE]

InitQuery ==
    /\ values = Query(QueryEntity, QueryEntity.id, Begin(<<>>, <<>>, 0, TRUE)).tx.values
    /\ links = Query(QueryEntity, QueryEntity.id, Begin(<<>>, <<>>, 0, TRUE)).tx.links
    /\ user_version = SchemaVersion
    /\ schema = 2
    /\ debug_assertions \in BOOLEAN
    /\ poisoned = FALSE
    /\ hist = <<>>
    /\ old_values = <<>>
    /\ old_links = <<>>
    /\ migs = <<>>
    /\ ret = <<>>
    /\ pc = <<>>
    /\ lock = <<>>
    /\ local = <<>>
    /\ committed = {}
    /\ query \in {Tree(f, "data", 0) : f \in DataLeaves} \cup {Tree(f, "link", 0) : f \in LinkLeaves}
    /\ sql = Err(NewBuilder)
    /\ codec = <<>>
    /\ handles = {}

QueryUnchanged ==
    UNCHANGED <<values, links, user_version, schema, debug_assertions, poisoned, hist,
                old_values, old_links, migs, ret, pc, lock, local, committed, codec,
                handles>>

(* The caller puts a DataFilter operator around its tree *)
WrapData ==
    /\ query.level = "data" /\ ~query.built /\ query.depth < MaxDepth
    /\ \E f \in DataWraps(query.f) : query' = Tree(f, "data", query.depth + 1)
    /\ UNCHANGED sql
    /\ QueryUnchanged

(* LinkFilter::Key / LinkFilter::Target around a DataFilter *)
WrapKeyTarget ==
    /\ query.level = "data" /\ ~query.built
    /\ \E f \in {FKey(query.f), FTarget(query.f)} : query' = Tree(f, "link", query.depth)
    /\ UNCHANGED sql
    /\ QueryUnchanged

(* The caller puts a LinkFilter operator around its tree *)
WrapLink ==
    /\ query.level = "link" /\ ~query.built /\ query.depth < MaxDepth
    /\ \E f \in LinkWraps(query.f) : query' = Tree(f, "link", query.depth + 1)
    /\ UNCHANGED sql
    /\ QueryUnchanged

(* DataFilter::Linked around a LinkFilter *)
WrapLinked ==
    /\ query.level = "link" /\ ~query.built /\ query.depth < MaxDepth
    /\ query' = Tree(FLinked(query.f), "data", query.depth + 1)
    /\ UNCHANGED sql
    /\ QueryUnchanged

(* Query::new(filter).build_sql(&mut sql) *)
Compile ==
    /\ query.level = "link" /\ ~query.built
    /\ query' = [query EXCEPT !.built = TRUE]
    /\ sql' = build_sql(query.f)
    /\ QueryUnchanged

NextQuery == WrapData \/ WrapKeyTarget \/ WrapLink \/ WrapLinked \/ Compile

SpecQuery == InitQuery /\ [][NextQuery]_vars

-----------------------------------------------------------------------------
(* SQLite's evaluation of a WHERE clause on a link row: three-valued logic  *)
(* ("T", "F", and "N" for NULL), NOT before AND before OR.  A parse returns *)
(* the value of the longest expression at the head of the tokens and the    *)
(* tokens after it.                                                         *)

Not3(a) == CASE a = "T" -> "F" [] a = "F" -> "T" [] OTHER -> "N"
And3(a, b) == IF a = "F" \/ b = "F" THEN "F" ELSE IF a = "T" /\ b = "T" THEN "T" ELSE "N"
Or3(a, b) == IF a = "T" \/ b = "T" THEN "T" ELSE IF a = "F" /\ b = "F" THEN "F" ELSE "N"

Parsed(v, rest) == [v |-> v, rest |-> rest]

(* The cell of a column of the row: the stored blob, or NULL *)
ColumnValue(col, row) ==
    IF col = "key_uuid"
    THEN (IF row.key = NoID THEN NULL ELSE to_sql(row.key))
    ELSE to_sql(row.target)

(* `col` == ? and `col` != ? with the bound parameter q: NULL when the cell *)
(* is NULL; values of different storage classes are never equal             *)
CmpValue(tok, cell) ==
    IF cell.t = "null" THEN "N"
    ELSE IF (cell = tok.q) = tok.eq THEN "T" ELSE "F"

IsOp(ts, op) == ts # <<>> /\ Head(ts).t = "op" /\ Head(ts).v = op

RECURSIVE ParseOr(_, _)
RECURSIVE OrTail(_, _)
RECURSIVE OrNext(_, _, _)
RECURSIVE ParseAnd(_, _)
RECURSIVE AndTail(_, _)
RECURSIVE AndNext(_, _, _)
RECURSIVE ParseNot(_, _)
RECURSIVE Negated(_)
RECURSIVE Closed(_)

ParseOr(ts, row) == OrTail(ParseAnd(ts, row), row)
OrTail(a, row) == IF IsOp(a.rest, "OR") THEN OrNext(a, ParseAnd(Tail(a.rest), row), row) ELSE a
OrNext(a, b, row) == OrTail(Parsed(Or3(a.v, b.v), b.rest), row)

ParseAnd(ts, row) == AndTail(ParseNot(ts, row), row)
AndTail(a, row) == IF IsOp(a.rest, "AND") THEN AndNext(a, ParseNot(Tail(a.rest), row), row) ELSE a
AndNext(a, b, row) == AndTail(Parsed(And3(a.v, b.v), b.rest), row)

Negated(a) == Parsed(Not3(a.v), a.rest)
Closed(a) == Parsed(a.v, Tail(a.rest))

ParseNot(ts, row) ==
    CASE Head(ts).t = "NOT" -> Negated(ParseNot(Tail(ts), row))
      [] Head(ts).t = "(" -> Closed(ParseOr(Tail(ts), row))
      [] Head(ts).t = "lit" -> Parsed(IF Head(ts).v = 1 THEN "T" ELSE "F", Tail(ts))
      [] OTHER -> Parsed(CmpValue(Head(ts), ColumnValue(Head(ts).col, row)), Tail(ts))

(* The row is in the result of the SELECT the builder renders *)
Selected(b, row) == b.wher = <<>> \/ ParseOr(b.wher, row).v = "T"

(* What a filter tree means.  A DataFilter is asked of an end of the link,  *)
(* x being its identifier, NoID for the key of an unkeyed link.             *)
RECURSIVE DataHolds(_, _)
DataHolds(f, x) ==
    CASE f.f = "Any" -> TRUE
      [] f.f = "None" -> FALSE
      [] f.f = "Id" -> x = f.id
      [] f.f = "NotId" -> x # f.id
      [] f.f = "Unique" -> TRUE
      [] f.f = "Not" -> ~DataHolds(f.s, x)
      [] f.f = "And" -> \A i \in DOMAIN f.fs : DataHolds(f.fs[i], x)
      [] OTHER -> \E i \in DOMAIN f.fs : DataHolds(f.fs[i], x)

RECURSIVE LinkHolds(_, _)
LinkHolds(f, row) ==
    CASE f.f = "Any" -> TRUE
      [] f.f = "None" -> FALSE
      [] f.f = "Key" -> DataHolds(f.s, row.key)
      [] f.f = "Target" -> DataHolds(f.s, row.target)
      [] f.f = "And" -> \A i \in DOMAIN f.fs : LinkHolds(f.fs[i], row)
      [] OTHER -> \E i \in DOMAIN f.fs : LinkHolds(f.fs[i], row)

(* The tree is built from Any, None, Id, NotId, Unique, Not, And, Or, Key   *)
(* and Target alone                                                         *)
RECURSIVE Plain(_)
Plain(f) ==
    CASE f.f \in {"Any", "None", "Id", "NotId", "Unique"} -> TRUE
      [] f.f \in {"Not", "Key", "Target"} -> Plain(f.s)
      [] f.f \in {"And", "Or"} -> \A i \in DOMAIN f.fs : Plain(f.fs[i])
      [] OTHER -> FALSE

(* C13: for every filter tree of Any, None, Id, NotId, Unique, Not, And,    *)
(* Or, Key and Target, build_sql succeeds and its WHERE clause is true of   *)
(* a link row exactly when the tree holds of the row.                       *)
C13_BooleanStructure ==
    (query # <<>> /\ query.built /\ Plain(query.f)) =>
        /\ sql.ok
        /\ \A i \in DOMAIN links :
            Selected(sql.sql, links[i]) = LinkHolds(query.f, links[i])

(* The filters of the identity claim: Any, None, Id(a), Or([Id(a), Id(b)])  *)
(* and Not(Id(a)) on the key or on the target                               *)
IdentityFilters ==
    {FAny, FNone}
    \cup UNION {{FKey(s), FTarget(s)} :
            s \in {FAny, FNone} \cup {FId(a) : a \in QueryIDs}
                  \cup {FNot(FId(a)) : a \in QueryIDs}
                  \cup {FOr(<<FId(a), FId(b)>>) : a \in QueryIDs, b \in QueryIDs}}

(* The rows the compiled query returns, as positions in the table *)
Returned_rows == {i \in DOMAIN links : Selected(sql.sql, links[i])}

(* C14: over the links written by store, the compiled query of an identity  *)
(* filter returns exactly the links the filter names: those whose end is a  *)
(* for Id(a), those matching either for Or([Id(a), Id(b)]), all but those   *)
(* whose end is a for Not(Id(a)), all for Any and none for None.            *)
C14_IdentityFilters ==
    (query # <<>> /\ query.built /\ query.f \in IdentityFilters) =>
        /\ sql.ok
        /\ Returned_rows = {i \in DOMAIN links : LinkHolds(query.f, links[i])}

(* The tree holds no reserved variant and no Text filter that is not an     *)
(* exact search                                                             *)
RECURSIVE Supported(_)
Supported(f) ==
    CASE f.f \in {"Any", "None", "Id", "NotId", "Unique"} -> TRUE
      [] f.f = "Text" -> f.exact
      [] f.f \in {"Not", "Key", "Target", "Linked"} -> Supported(f.s)
      [] f.f \in {"And", "Or"} -> \A i \in DOMAIN f.fs : Supported(f.fs[i])
      [] OTHER -> FALSE

(* C15: build_sql returns Err for every tree that holds an unsupported      *)
(* node, at whatever depth and under whatever operators, and Ok for the     *)
(* others.                                                                  *)
C15_UnsupportedPropagates ==
    (query # <<>> /\ query.built) => (sql.ok <=> Supported(query.f))

(* an unsupported node at the deepest place of a tree, under operators of   *)
(* both levels, was compiled and gave Err                                   *)
C15_Witness ==
    /\ query # <<>> /\ query.built /\ ~sql.ok
    /\ query.depth = MaxDepth
    /\ query.f.f = "Or" /\ Len(query.f.fs) = 2
    /\ query.f.fs[2].f = "Key" /\ query.f.fs[2].s.f = "Not" /\ ~Supported(query.f.fs[2].s.s)

(* The parameters the `?` of a text were written for, left to right *)
IsPlaceholder(tok) == tok.t \in {"cmp", "like"}
Placeholders(ts) == [i \in DOMAIN SelectSeq(ts, IsPlaceholder) |-> SelectSeq(ts, IsPlaceholder)[i].q]

(* C20: when build_sql succeeds, the rendered text has as many `?` as the   *)
(* builder has parameters, and the i-th `?` from the left was written for   *)
(* the i-th parameter.                                                      *)
C20_ParametersInOrder ==
    (query # <<>> /\ query.built /\ sql.ok) =>
        Placeholders(Render(sql.sql)) = sql.sql.params

(* a compiled tree with three parameters, a text search among them, through *)
(* at least two merges                                                      *)
C20_Witness ==
    /\ query # <<>> /\ query.built /\ sql.ok
    /\ query.depth = MaxDepth
    /\ Len(sql.sql.params) = 3
    /\ \E i \in 1..3 : sql.sql.params[i] = to_owned("foo")
    /\ \E i \in 1..3 : sql.sql.params[i] = to_string(12)
    /\ sql.sql.params[1] # sql.sql.params[3]

-----------------------------------------------------------------------------
(* The identifier codec (util.rs).  A u128 is eight 16-bit limbs, the most  *)
(* significant first; a blob is a sequence of bytes.                        *)

Limbs == 8
IdBytes == 16

(* how many limbs of an identifier of the model are not zero, at most *)
MaxLimbs == 2
LimbValues == {1, 255, 256, 65535}

Zero128 == [i \in 1..Limbs |-> 0]

(* The identifiers encoded: nonzero, with one or two limbs set *)
CodecIDs ==
    {[i \in 1..Limbs |-> IF i = p THEN a ELSE IF i = q THEN b ELSE 0] :
        p \in 1..Limbs, q \in 1..Limbs, a \in LimbValues,
        b \in (IF MaxLimbs > 1 THEN LimbValues ELSE {0})}

(* u128::to_be_bytes: the most significant byte first *)
to_be_bytes(u) ==
    [j \in 1..IdBytes |->
        IF j % 2 = 1 THEN u[(j + 1) \div 2] \div 256 ELSE u[j \div 2] % 256]

(* u128::from_be_bytes *)
from_be_bytes(array) == [i \in 1..Limbs |-> array[2 * i - 1] * 256 + array[2 * i]]

(* Value::Blob(bytes) *)
Blob(bytes) == [t |-> "blob", bytes |-> bytes]

(* ToSql for SqlID *)
SqlID_to_sql(id) == Blob(to_be_bytes(id))

(* FromSqlResult<SqlID> *)
DecodeOk(id) == [ok |-> TRUE, id |-> id]
DecodeErr(e) == [ok |-> FALSE, err |-> e]

(* FromSql for SqlID *)
column_result(value) ==
    IF value.t # "blob" THEN DecodeErr("InvalidType")
    ELSE IF Len(value.bytes) # IdBytes THEN DecodeErr("InvalidBlobSize")
    ELSE IF from_be_bytes(value.bytes) = Zero128 THEN DecodeErr("OutOfRange")
    ELSE DecodeOk(from_be_bytes(value.bytes))

(* What else an identifier column may hold: a blob shorter or longer than   *)
(* the encoding, an empty one, sixteen zero bytes, NULL                     *)
Damaged(value) ==
    {Blob(SubSeq(value.bytes, 1, IdBytes - 1)), Blob(value.bytes \o <<0>>),
     Blob(Tail(value.bytes)), Blob(<<>>), Blob(to_be_bytes(Zero128)), NULL}

NotDecoded == [t |-> "none"]

InitCodec ==
    /\ values = <<>>
    /\ links = <<>>
    /\ user_version = SchemaVersion
    /\ schema = 2
    /\ debug_assertions \in BOOLEAN
    /\ poisoned = FALSE
    /\ hist = <<>>
    /\ old_values = <<>>
    /\ old_links = <<>>
    /\ migs = <<>>
    /\ ret = <<>>
    /\ pc = <<>>
    /\ lock = <<>>
    /\ local = <<>>
    /\ committed = {}
    /\ query = <<>>
    /\ sql = <<>>
    /\ \E id \in CodecIDs :
        codec = [id |-> id, value |-> NULL, stage |-> "new", decoded |-> NotDecoded]
    /\ handles = {}

CodecUnchanged ==
    UNCHANGED <<values, links, user_version, schema, debug_assertions, poisoned, hist,
                old_values, old_links, migs, ret, pc, lock, local, committed, query, sql,
                handles>>

(* the identifier is bound to a statement and written to its column *)
Encode ==
    /\ codec.stage = "new"
    /\ codec' = [codec EXCEPT !.value = SqlID_to_sql(codec.id), !.stage = "stored"]
    /\ CodecUnchanged

(* the cell is overwritten by something that is not the encoding *)
Damage ==
    /\ codec.stage = "stored" /\ codec.decoded = NotDecoded
    /\ \E v \in Damaged(codec.value) :
        codec' = [codec EXCEPT !.value = v, !.stage = "damaged"]
    /\ CodecUnchanged

(* row.get::<_, SqlID>(..) reads the cell *)
Decode ==
    /\ codec.stage \in {"stored", "damaged"}
    /\ codec.decoded = NotDecoded
    /\ codec' = [codec EXCEPT !.decoded = column_result(codec.value)]
    /\ CodecUnchanged

NextCodec == Encode \/ Damage \/ Decode

SpecCodec == InitCodec /\ [][NextCodec]_vars

(* The cell is a blob of sixteen bytes that are not all zero *)
WellFormed(value) ==
    /\ value.t = "blob"
    /\ Len(value.bytes) = IdBytes
    /\ \E j \in 1..IdBytes : value.bytes[j] # 0

(* decoding succeeds exactly on the well-formed cells, then with the        *)
(* identifier whose big-endian encoding the cell is, and with the           *)
(* identifier that was encoded if the cell is still the encoding            *)
CodecRoundTrip ==
    codec.decoded # NotDecoded =>
        /\ codec.decoded.ok <=> WellFormed(codec.value)
        /\ codec.decoded.ok => to_be_bytes(codec.decoded.id) = codec.value.bytes
        /\ codec.stage = "stored" => codec.decoded = DecodeOk(codec.id)

(* C16: decoding a stored byte sequence succeeds exactly when it has 16     *)
(* bytes that are not all zero, then yields the identifier whose big-endian *)
(* encoding it is (so decode(encode(id)) = id); any other length and the    *)
(* all-zero sequence fail with InvalidID.                                   *)
C16_IdentifierCodec ==
    /\ CodecRoundTrip
    /\ (codec.decoded # NotDecoded /\ ~codec.decoded.ok /\ codec.value.t = "blob") =>
            codec.decoded.err = "InvalidID"

-----------------------------------------------------------------------------
(* A database that was opened and never initialised: Database::open or      *)
(* open_in_memory without init.  No table exists and the stored version is  *)
(* 0.                                                                       *)

InitOpened ==
    /\ values = <<>>
    /\ links = <<>>
    /\ user_version = 0
    /\ schema = 0
    /\ debug_assertions \in BOOLEAN
    /\ poisoned = FALSE
    /\ hist = <<>>
    /\ old_values = <<>>
    /\ old_links = <<>>
    /\ migs = <<>>
    /\ ret = <<>>
    /\ pc = <<>>
    /\ lock = <<>>
    /\ local = <<>>
    /\ committed = {}
    /\ query = <<>>
    /\ sql = <<>>
    /\ codec = <<>>
    /\ handles = {}

SpecOpened == InitOpened /\ [][Next]_vars

(* C18: a store call on a database whose stored version is not the target   *)
(* version panics: it does not return Ok, and it leaves the value rows and  *)
(* the link rows as they were.                                              *)
C18_UninitialisedPanics ==
    [][(hist' # hist /\ ~is_ready) =>
            /\ hist'[Len(hist')].res = "panic"
            /\ values' = values
            /\ links' = links]_vars

-----------------------------------------------------------------------------
(* The link rows of the source id that a call added, oldest first *)
AddedLinks(id) ==
    SubSeq(SelectLinks(links', id), Len(SelectLinks(links, id)) + 1, Len(SelectLinks(links', id)))

(* C19: a store(e) of an entity that reports links, on a healthy lock,      *)
(* returns Ok and adds exactly one link row with source e.id per reported   *)
(* link, whatever the targets supply; the targets without an identifier of  *)
(* their own get identifiers distinct from one another.                     *)
C19_OneRowPerLink ==
    [][(hist' # hist /\ ~poisoned /\ hist'[Len(hist')].e.links # <<>>) =>
            /\ hist'[Len(hist')].res = "ok"
            /\ Len(AddedLinks(hist'[Len(hist')].e.id)) = Len(hist'[Len(hist')].e.links)
            /\ \A i, j \in DOMAIN hist'[Len(hist')].e.links :
                (i < j /\ hist'[Len(hist')].e.links[i].target.id = NoID
                       /\ hist'[Len(hist')].e.links[j].target.id = NoID
                       /\ j <= Len(AddedLinks(hist'[Len(hist')].e.id))) =>
                    AddedLinks(hist'[Len(hist')].e.id)[i].target
                        # AddedLinks(hist'[Len(hist')].e.id)[j].target]_vars

-----------------------------------------------------------------------------
(* Extraction from value rows that store did not write: cells that do not   *)
(* decode as the kind of their column, in a process where one step of the   *)
(* read may fail.                                                           *)

(* The columns in the order query_primitives asks for them *)
KindOrder ==
    <<"bool", "u8", "i8", "u16", "i16", "u32", "i32", "u64", "i64", "f32", "f64", "str", "bytes">>

(* `[Option::<&str>::None; 12]`: the slots of `cols` *)
MaxCols == 12

(* col_iter.next().map(..) on the slots: the first MaxCols names are kept *)
Take(names) == SubSeq(names, 1, IF Len(names) < MaxCols THEN Len(names) ELSE MaxCols)

InRequest(request, k) == k \in request

(* `cols`: the requested columns, in that order *)
Cols(request) == Take(SelectSeq(KindOrder, LAMBDA k : InRequest(request, k)))

(* RequestedLink::query_owned for the column k: the decoded cell is         *)
(* provided, an undecodable one is passed over                              *)
query_owned(k, cell, got) ==
    IF FromSql(k, cell) = NULL THEN got ELSE [got EXCEPT ![k] = FromSql(k, cell)]

(* `for (i, col) in cols.into_iter().flatten().enumerate()` *)
RECURSIVE provide_from(_, _, _)
provide_from(cols, row, got) ==
    IF cols = <<>> THEN got
    ELSE provide_from(Tail(cols), row, query_owned(Head(cols), row[Head(cols)], got))

(* The step of the read that fails: 0 none, 1 prepare_cached or stmt.query, *)
(* 2 the rows.next() that fetches the row, 3 the rows.next() after it       *)
ReadFaults == 0..3

(* What the consumer was given, and how the call ended *)
(* selected: the columns of the SELECT issued on `values`, NoSelect if none *)
NoSelect == [t |-> "none"]
Select(cols) == [t |-> "select", cols |-> cols]

Extracted(selected, fields, lnks, res) ==
    [selected |-> selected, fields |-> fields, links |-> lnks, res |-> res]

(* query_primitives with the requested kinds; Err and Ok both return to     *)
(* query, which only logs an Err.  The last step is taken inside a          *)
(* debug_assert! and its result is unwrapped.                               *)
primitives(id, request, fault) ==
    IF request = {} THEN Extracted(NoSelect, EmptyRow, <<>>, "returned")
    ELSE IF fault \in {1, 2} \/ id \notin DOMAIN values
    THEN Extracted(Select(Cols(request)), EmptyRow, <<>>, "returned")
    ELSE Extracted(Select(Cols(request)),
                   provide_from(Cols(request), values[id], EmptyRow), <<>>,
                   IF debug_assertions /\ fault = 3 THEN "panic" ELSE "returned")

(* Data for StoredData::query: the read guard, query_primitives if a        *)
(* primitive is requested, then query_links                                 *)
extract(id, request, fault) ==
    IF poisoned THEN Extracted(NoSelect, EmptyRow, <<>>, "panic")
    ELSE IF primitives(id, request, fault).res = "panic" THEN primitives(id, request, fault)
    ELSE Extracted(primitives(id, request, fault).selected,
                   primitives(id, request, fault).fields, query_links(id), "returned")

QueryCall(id, request, fault, got) ==
    [op |-> "query", id |-> id, request |-> request, fault |-> fault, got |-> got]

(* Cells of the columns u8 and str, decodable and not *)
U8Cells == {NULL, Small(255), Small(300), Text("x")}
StrCells == {NULL, Text("a"), Small(7)}
I32Cells == {NULL, Small(7)}

ExtractRows ==
    {[EmptyRow EXCEPT !["u8"] = a, !["str"] = b, !["i32"] = c] :
        a \in U8Cells, b \in StrCells, c \in I32Cells}

Requests == {{}, {"u8"}, {"str"}, {"u8", "str"}, {"u8", "i32", "str"}, {"bool", "i64"}}

InitExtract ==
    /\ \E row \in ExtractRows : values = (1 :> row)
    /\ links \in {<<>>, <<LinkRow(1, NoID, 11)>>, <<LinkRow(1, 12, 11), LinkRow(1, NoID, 13)>>}
    /\ user_version = SchemaVersion
    /\ schema = 2
    /\ debug_assertions \in BOOLEAN
    /\ poisoned = FALSE
    /\ hist = <<>>
    /\ old_values = <<>>
    /\ old_links = <<>>
    /\ migs = <<>>
    /\ ret = <<>>
    /\ pc = <<>>
    /\ lock = <<>>
    /\ local = <<>>
    /\ committed = {}
    /\ query = <<>>
    /\ sql = <<>>
    /\ codec = <<>>
    /\ handles = {}

(* db.get(id).query(request) *)
Extract(id, request, fault) ==
    /\ hist = <<>>
    /\ hist' = <<QueryCall(id, request, fault, extract(get(id), request, fault))>>
    /\ UNCHANGED <<values, links, user_version, schema, debug_assertions, poisoned,
                   old_values, old_links, migs, ret, pc>>
    /\ UNCHANGED threadvars
    /\ UNCHANGED restvars

NextExtract == \E id \in {1, 2} : \E request \in Requests : \E fault \in ReadFaults :
                    Extract(id, request, fault)

SpecExtract == InitExtract /\ [][NextExtract]_vars

(* The cell decodes as the kind of its column *)
Decodable(k, cell) == FromSql(k, cell) # NULL

(* C17: an extraction returns, whatever cell is undecodable and whatever    *)
(* step of the read of the value row fails; every link is delivered; and    *)
(* when the row is read, every requested field whose cell decodes is        *)
(* delivered and the others are passed over.                                *)
C17_BestEffort ==
    \A i \in DOMAIN hist :
        /\ hist[i].got.res = "returned"
        /\ hist[i].got.links = SelectLinks(links, hist[i].id)
        /\ (hist[i].fault \notin {1, 2} /\ hist[i].id \in DOMAIN values) =>
            \A k \in hist[i].request :
                hist[i].got.fields[k] =
                    IF Decodable(k, values[hist[i].id][k])
                    THEN FromSql(k, values[hist[i].id][k]) ELSE NULL

-----------------------------------------------------------------------------
(* Extraction by consumers that request any set of the primitive kinds,     *)
(* from rows as the upserts of store leave them.                            *)

SelectRows ==
    { <<>>,
      Upsert(<<>>, 1, "str", Text("a")),
      Upsert(Upsert(<<>>, 1, "bool", Small(0)), 1, "u8", Small(255)) }

InitSelect ==
    /\ values \in SelectRows
    /\ links = <<LinkRow(1, NoID, 11)>>
    /\ user_version = SchemaVersion
    /\ schema = 2
    /\ debug_assertions \in BOOLEAN
    /\ poisoned = FALSE
    /\ hist = <<>>
    /\ old_values = <<>>
    /\ old_links = <<>>
    /\ migs = <<>>
    /\ ret = <<>>
    /\ pc = <<>>
    /\ lock = <<>>
    /\ local = <<>>
    /\ committed = {}
    /\ query = <<>>
    /\ sql = <<>>
    /\ codec = <<>>
    /\ handles = {}

NextSelect == hist = <<>> /\ \E request \in SUBSET Kinds : Extract(1, request, 0)

SpecSelect == InitSelect /\ [][NextSelect]_vars

(* The columns a SELECT names, as a set *)
Range(cols) == {cols[j] : j \in DOMAIN cols}

(* C21: for every set W of primitive kinds a consumer requests, no value    *)
(* query is issued when W is empty, the value query otherwise selects       *)
(* exactly the columns of W, and every column of W that is not NULL in the  *)
(* stored row is delivered under its kind.                                  *)
C21_ExactProjection ==
    \A i \in DOMAIN hist :
        /\ IF hist[i].request = {}
           THEN hist[i].got.selected = NoSelect
           ELSE /\ hist[i].got.selected.t = "select"
                /\ Range(hist[i].got.selected.cols) = hist[i].request
        /\ hist[i].id \in DOMAIN values =>
            \A k \in hist[i].request :
                values[hist[i].id][k] # NULL =>
                    /\ hist[i].got.fields[k] # NULL
                    /\ hist[i].got.fields[k] = FromSql(k, values[hist[i].id][k])

-----------------------------------------------------------------------------
(* Callers that take handles with Database::get, store entities and extract *)
(* through the handles they hold, in any order.                             *)

(* StoredData { db: self.clone(), id }: the handle is the identifier and a  *)
(* clone of the Arc; nothing is locked and nothing is read                  *)
Get(id) ==
    /\ get(id) \notin handles
    /\ handles' = handles \cup {get(id)}
    /\ UNCHANGED <<values, links, user_version, schema, debug_assertions, poisoned, hist,
                   old_values, old_links, migs, ret, pc>>
    /\ UNCHANGED threadvars
    /\ UNCHANGED <<queryvars, codec>>

Queries == {i \in DOMAIN hist : hist[i].op = "query"}

HandleRequests == {{"bool", "u8"}, {"f64", "str"}}

(* handle.query(request) for a handle h the caller holds *)
QueryHandle(h, request) ==
    /\ h \in handles
    /\ Queries = {}
    /\ hist' = Append(hist, QueryCall(h, request, 0, extract(h, request, 0)))
    /\ UNCHANGED <<values, links, user_version, schema, debug_assertions, poisoned,
                   old_values, old_links, migs, ret, pc>>
    /\ UNCHANGED threadvars
    /\ UNCHANGED restvars

NextHandle ==
    \/ Store
    \/ \E id \in UserIDs : Get(id)
    \/ \E h \in handles : \E request \in HandleRequests : QueryHandle(h, request)

SpecHandle == Init /\ [][NextHandle]_vars

(* C22: get(id) leaves the lock and the tables alone, and an extraction     *)
(* through a handle, whenever the handle was taken, returns and delivers    *)
(* the requested columns and the links that the tables hold for its         *)
(* identifier when the extraction starts.                                   *)
C22_HandleReadsStore ==
    [][/\ handles' # handles => UNCHANGED <<values, links, poisoned, lock, hist>>
       /\ (hist' # hist /\ hist'[Len(hist')].op = "query") =>
            /\ hist'[Len(hist')].got.res = "returned"
            /\ hist'[Len(hist')].got.links = SelectLinks(links, hist'[Len(hist')].id)
            /\ \A k \in hist'[Len(hist')].request :
                hist'[Len(hist')].got.fields[k] =
                    IF hist'[Len(hist')].id \in DOMAIN values
                    THEN FromSql(k, values[hist'[Len(hist')].id][k]) ELSE NULL]_vars

-----------------------------------------------------------------------------
(* C24: at every call of run_one the migrator's version is the version      *)
(* stored in the database, and a step is run only on a store at the version *)
(* the step starts from, so that no step is applied twice, however the      *)
(* calls on two migrators of the same database interleave.                  *)
C24_StepAtExpectedVersion ==
    [][\A m \in Migrators : Called(m) =>
        /\ migs[m] = user_version
        /\ ret'[m].r \in {"ok", "err"} => user_version = migs[m]]_vars

-----------------------------------------------------------------------------
(* Database::init and Database::migrate on a fresh store *)

(* A store that was opened and never initialised: no tables, version 0 *)
FreshDb == [values |-> <<>>, links |-> <<>>, user_version |-> 0, schema |-> 0]

(* Database::init past its readiness check: one transaction around 1.sql,   *)
(* 2a.sql and 2b.sql (2b.sql completes the `uuid` layout that 2a.sql        *)
(* begins; the layout 2 stands for both), with no conversion of rows.       *)
init(db) == Script2a(Script1(db))

(* C25: a run_all that ran the step from version 0 (a store at version 0    *)
(* is a fresh one) and then ends Ok leaves what init leaves on a fresh      *)
(* store: the same layout of the tables (the one store and get work on),    *)
(* no rows, and the same stored version, the compiled-in target.            *)
C25_InitAndMigrateAgree ==
    [][\A m \in Migrators :
        (pc[m] = "run_all" /\ ret[m].r = "ok" /\ ret[m].v = 1 /\ pc'[m] = "done_ok") =>
            /\ schema' = init(FreshDb).schema
            /\ user_version' = init(FreshDb).user_version
            /\ user_version' = SchemaVersion
            /\ values' = init(FreshDb).values
            /\ links' = init(FreshDb).links]_vars

-----------------------------------------------------------------------------
(* Database::init called by threads that share one Database.  A thread may  *)
(* call init again after it has returned.                                   *)

(* Calls of init in one run *)
MaxInits == 4

InitCall(t, applied, res) == [op |-> "init", t |-> t, applied |-> applied, res |-> res]

InitCalls == {i \in DOMAIN hist : hist[i].op = "init"}

(* What the second application of the scripts can do to a store that has    *)
(* the tables already: the batch fails at a statement that finds its table  *)
(* or column present and init returns the error, or every statement is      *)
(* written to pass on such a store and init returns Ok                      *)
Reapplied == {"err", "ok"}

InitUnchanged ==
    /\ UNCHANGED <<values, links, debug_assertions, old_values, old_links, migs, ret,
                   local, committed>>
    /\ UNCHANGED restvars

(* init, its first statement: is_ready() reads the stored version under a   *)
(* read guard that schema_version drops before it returns.  A ready store   *)
(* makes init return Ok at once.                                            *)
InitCheck(t) ==
    /\ pc[t] = "idle"
    /\ Cardinality(InitCalls) + Cardinality({o \in Threads : pc[o] # "idle"}) < MaxInits
    /\ CanAcquire(t, "read")
    /\ IF poisoned
       THEN Goes(t, "panicked") /\ UNCHANGED hist
       ELSE IF is_ready
       THEN Goes(t, "idle") /\ hist' = Append(hist, InitCall(t, FALSE, "ok"))
       ELSE Goes(t, "init_unready") /\ UNCHANGED hist
    /\ UNCHANGED <<user_version, schema, poisoned, lock>>
    /\ InitUnchanged

(* init: self.conn.write().unwrap() *)
InitLock(t) ==
    /\ pc[t] = "init_unready"
    /\ CanAcquire(t, "write")
    /\ IF poisoned
       THEN Goes(t, "panicked") /\ UNCHANGED lock
       ELSE Goes(t, "init_locked") /\ lock' = [lock EXCEPT ![t] = "write"]
    /\ UNCHANGED <<user_version, schema, poisoned, hist>>
    /\ InitUnchanged

(* init, the rest: the transaction around the three scripts, its commit,    *)
(* drop(conn) and the debug_assert!(self.is_ready()).  An error leaves by   *)
(* `?`: the transaction is rolled back and the guard dropped.               *)
InitApply(t) ==
    /\ pc[t] = "init_locked"
    /\ lock' = [lock EXCEPT ![t] = "none"]
    /\ \E again \in Reapplied :
        IF schema # 0 /\ again = "err"
        THEN /\ UNCHANGED <<user_version, schema>>
             /\ hist' = Append(hist, InitCall(t, FALSE, "err"))
             /\ Goes(t, "idle")
        ELSE /\ user_version' = init(Db).user_version
             /\ schema' = init(Db).schema
             /\ IF debug_assertions /\ init(Db).user_version # SchemaVersion
                THEN Goes(t, "panicked") /\ UNCHANGED hist
                ELSE /\ hist' = Append(hist, InitCall(t, TRUE, "ok"))
                     /\ Goes(t, "idle")
    /\ UNCHANGED poisoned
    /\ InitUnchanged

InitInit ==
    /\ values = <<>>
    /\ links = <<>>
    /\ \/ user_version = SchemaVersion /\ schema = 2
       \/ user_version = 0 /\ schema = 0
    /\ debug_assertions \in BOOLEAN
    /\ poisoned = FALSE
    /\ hist = <<>>
    /\ old_values = <<>>
    /\ old_links = <<>>
    /\ migs = <<>>
    /\ ret = <<>>
    /\ pc = [t \in Threads |-> "idle"]
    /\ lock = [t \in Threads |-> "none"]
    /\ local = <<>>
    /\ committed = {}
    /\ query = <<>>
    /\ sql = <<>>
    /\ codec = <<>>
    /\ handles = {}

NextInit == \E t \in Threads : InitCheck(t) \/ InitLock(t) \/ InitApply(t)

SpecInit == InitInit /\ [][NextInit]_vars

(* C23: however the calls of init on one Database interleave and repeat,    *)
(* the scripts are applied at most once, exactly once when every call has   *)
(* returned on a store that was fresh, no call returns an error, and once   *)
(* a call has returned the store is ready.                                  *)
C23_InitOnce ==
    /\ Cardinality({i \in InitCalls : hist[i].applied}) <= 1
    /\ \A i \in InitCalls : hist[i].res = "ok"
    /\ InitCalls # {} => is_ready

====
